---------------------------- MODULE Spec2Model ----------------------------
(***************************************************************************)
(* Model of the punt-return feature pipeline and the play animation of     *)
(* nflutil.py, nfl_bdb22.py and nflplot.py.                                *)
(*                                                                         *)
(* A dataframe is a sequence of rows (records); a column is a record       *)
(* field.  Yards and degrees are fixed-point integers in hundredths        *)
(* (the tracking data carries two decimals), a frame lasts a tenth of a    *)
(* second, and a missing numeric value (NaN) is a number no column holds.   *)
(***************************************************************************)
EXTENDS Integers, Sequences, FiniteSets, TLC

NaN == 0 - 1000000

VARIABLES
    \* nflutil.transform_tracking_data and its caller
    heap,       \* dataframe objects: reference -> rows
    input,      \* the rows both of the caller's dataframes were loaded with
    called,     \* per caller dataframe: "no", or how transform was called on it
    returned,   \* per caller dataframe: what the call returned
    \* nfl_bdb22: the feature pipeline
    track_df,   \* the tracking data (weekN.csv)
    play_df,    \* plays.csv
    pff_df,     \* PFFScoutingData.csv
    game_df,    \* games.csv
    pc,         \* "start", then the function that returned or raised last
    arg,        \* the argument each function was called with
    model_df,   \* what prep_get_modeling_frames returned
    ttc_df,     \* what feat_timeToCatch returned
    clean_df,   \* what prep_remove_low_hangtime_punts returned
    return_df,  \* what feat_byDefender returned: the rows of the pivot
    ranked_df,  \* feat_byDefender's frame before the n_defenders filter and the pivot
    raised,     \* the exception of the last call, or "none"
    reads,      \* the input dataframes the last call has read
    \* nflplot.PlayAnimation
    frame_data,         \* self._frame_data: the play's rows, sorted by frameId
    num_players,        \* self._num_players
    scat_fb,            \* offsets of the football scatter
    scat_home,          \* offsets of the home scatter
    scat_away,          \* offsets of the away scatter
    scat_position_list, \* text placeholders: position inside the dot
    scat_number_list,   \* text placeholders: jersey number above the dot
    scat_name_list,     \* text placeholders: last name below the dot
    plot_track_list,    \* line placeholders: the track of a player
    anim_frame          \* the frame update() rendered last, 0 before the first

tvars == <<heap, input, called, returned>>
inputs == <<track_df, play_df, pff_df, game_df>>
pvars == <<inputs, pc, arg, model_df, ttc_df, clean_df, return_df, ranked_df, raised, reads>>
avars == <<frame_data, num_players, scat_fb, scat_home, scat_away, scat_position_list,
           scat_number_list, scat_name_list, plot_track_list, anim_frame>>
vars == <<tvars, pvars, avars>>

NoArgs == [play_end_event_name |-> "unset", catch_type |-> "unset",
           hangtime_thresh |-> NaN, n_defenders |-> 0]


\* ----- generic dataframe helpers ---------------------------------------
\* every sequence of at most n elements of S
SeqsUpTo(S, n) == UNION {[1..k -> S] : k \in 0..n}

Range(s) == {s[i] : i \in DOMAIN s}

\* ======================================================================
\* nflutil.transform_tracking_data
\* ======================================================================
FIELD_SIZE_X == 12000
FIELD_SIZE_Y == 5330

MaxRows == 2

\* the values the columns of an input tracking row are drawn from
DirectionValues == {"left", "right", "unknown"}
XValues == {0, 4550}
YValues == {1000, 5330}
AngleValues == {NaN, 9050, 27000}
OtherValues == {7}

TrackRows ==
    [playDirection : DirectionValues, x : XValues, y : YValues,
     o : AngleValues, dir : {18000}, frameId : OtherValues]
    \cup
    [playDirection : {"left"}, x : {4550}, y : {1000},
     o : {9050}, dir : AngleValues, frameId : OtherValues]

\* float arithmetic propagates a missing value
Minus(a, b) == IF a = NaN \/ b = NaN THEN NaN ELSE a - b
AddMod(a, k, m) == IF a = NaN THEN NaN ELSE (a + k) % m

FlipX(v) == Minus(FIELD_SIZE_X, v)
FlipY(v) == Minus(FIELD_SIZE_Y, v)
Turn(v) == AddMod(v, 18000, 36000)

\* the right-hand side of an assignment to column col
NewValue(col, v) ==
    CASE col = "x" -> FlipX(v)
      [] col = "y" -> FlipY(v)
      [] OTHER -> Turn(v)

\* out_df.loc[i_left, col] = value computed from the selected rows
LocAssign(df, mask, col) ==
    [i \in DOMAIN df |->
        IF mask[i] THEN [df[i] EXCEPT ![col] = NewValue(col, df[i][col])] ELSE df[i]]

\* lines 84-94: the mask is taken once, then x, y, o and dir are rewritten
ILeftNoMask(out_df) == [i \in DOMAIN out_df |-> TRUE]
ILeft(out_df) == [i \in DOMAIN out_df |-> out_df[i].playDirection = "left"]

TransformRows(out_df) ==
    LET i_left == ILeft(out_df)
        d1 == LocAssign(out_df, i_left, "x")
        d2 == LocAssign(d1, i_left, "y")
        d3 == LocAssign(d2, i_left, "o")
    IN LocAssign(d3, i_left, "dir")

CallerRefs == {1, 2}

\* what a call hands back: None, or a dataframe object
NoneValue == [type |-> "None"]
DataFrame(ref) == [type |-> "DataFrame", ref |-> ref]
Unset == [type |-> "unset"]

\* track_df.copy() allocates a new object
FreshRef(h) == Cardinality(DOMAIN h) + 1

\* lines 79-82: which object the function works on
OutRefAlias(h, track_ref, inplace) == track_ref
OutRef(h, track_ref, inplace) == IF inplace THEN track_ref ELSE FreshRef(h)

\* lines 69-99
transform_tracking_data(track_ref, inplace) ==
    /\ called[track_ref] = "no"
    /\ LET out == OutRef(heap, track_ref, inplace)
           copied == (out :> heap[track_ref]) @@ heap
       IN /\ heap' = [copied EXCEPT ![out] = TransformRows(copied[out])]
          /\ returned' = [returned EXCEPT
                 ![track_ref] = IF inplace THEN NoneValue ELSE DataFrame(out)]
    /\ called' = [called EXCEPT ![track_ref] = IF inplace THEN "inplace" ELSE "copy"]
    /\ UNCHANGED <<input, pvars, avars>>

TransformInit ==
    /\ input \in SeqsUpTo(TrackRows, MaxRows)
    /\ heap = [r \in CallerRefs |-> input]
    /\ called = [r \in CallerRefs |-> "no"]
    /\ returned = [r \in CallerRefs |-> Unset]
    /\ track_df = <<>> /\ play_df = <<>> /\ pff_df = <<>> /\ game_df = <<>>
    /\ pc = "idle" /\ arg = NoArgs /\ raised = "none" /\ reads = {}
    /\ model_df = <<>> /\ ttc_df = <<>> /\ clean_df = <<>>
    /\ return_df = {} /\ ranked_df = <<>>
    /\ frame_data = <<>> /\ num_players = 0 /\ anim_frame = 0
    /\ scat_fb = <<>> /\ scat_home = <<>> /\ scat_away = <<>>
    /\ scat_position_list = <<>> /\ scat_number_list = <<>>
    /\ scat_name_list = <<>> /\ plot_track_list = <<>>

TransformNext ==
    \E r \in CallerRefs, inplace \in BOOLEAN : transform_tracking_data(r, inplace)

\* ======================================================================
\* nfl_bdb22: prep_get_modeling_frames, feat_timeToCatch,
\*            prep_remove_low_hangtime_punts
\* ======================================================================
MaxFrame == 3

RECURSIVE Concat(_)
Concat(ss) == IF ss = <<>> THEN <<>> ELSE Head(ss) \o Concat(Tail(ss))

Repeat(x, n) == [i \in 1..n |-> x]

\* on=['gameId','playId']
SameKey(a, b) == a.gameId = b.gameId /\ a.playId = b.playId

\* left.merge(right[['gameId','playId']], how='inner', on=['gameId','playId']):
\* every left row, in order, once per right row with its key
MergeKeys(left, right) ==
    Concat([i \in DOMAIN left |->
        Repeat(left[i], Cardinality({j \in DOMAIN right : SameKey(left[i], right[j])}))])

\* a returnerId cell is a string, here its sequence of tokens (an id, or ids
\* separated by ";"); a missing cell is the empty sequence
MissingStr == <<>>
AsTypeStr(v) == IF v = MissingStr THEN <<"nan">> ELSE v
StrContains(v, tok) == \E i \in DOMAIN v : v[i] = tok

\* line 25: ~play_df.returnerId.astype(str).str.contains(';')
SingleReturner(play) == ~StrContains(AsTypeStr(play.returnerId), ";")

\* lines 9-14: the play filter of the chosen end event; "invalid" is the else branch
PlayFilter(play, play_end_event_name) ==
    IF play_end_event_name = "punt_received"
    THEN /\ play.specialTeamsPlayType = "Punt"
         /\ play.specialTeamsResult = "Return"
         /\ play.kickReturnYardage # NaN
    ELSE /\ play.specialTeamsPlayType = "Punt"
         /\ play.specialTeamsResult = "Fair Catch"

ValidEndEventsWithLand == {"punt_received", "fair_catch", "punt_land"}
ValidEndEvents == {"punt_received", "fair_catch"}

\* nflutil.get_frame_of_event(track_df, names): the (gameId, playId, event,
\* frameId) of the frames that carry one of the named events
get_frame_of_event(df, names) ==
    {[gameId |-> r.gameId, playId |-> r.playId, event |-> r.event, frameId |-> r.frameId] :
        r \in {q \in Range(df) : q.event \in names}}

\* .pivot(index=['gameId','playId'], columns='event', values='frameId'):
\* the columns are the events that occur at all
PivotColumns(ev) == {e.event : e \in ev}
PivotCell(ev, row, col) ==
    LET hit == {e \in ev : SameKey(e, row) /\ e.event = col}
    IN IF hit = {} THEN NaN ELSE (CHOOSE e \in hit : TRUE).frameId
PivotHasRow(ev, row) == \E e \in ev : SameKey(e, row)

\* lines 37-50: the frames from the punt to the end event, both included
InWindowOpenEnd(frameId, puntFrameId, puntReceivedFrameId) ==
    /\ puntFrameId # NaN /\ puntReceivedFrameId # NaN
    /\ frameId >= puntFrameId /\ frameId < puntReceivedFrameId
InWindow(frameId, puntFrameId, puntReceivedFrameId) ==
    /\ puntFrameId # NaN /\ puntReceivedFrameId # NaN
    /\ frameId >= puntFrameId /\ frameId <= puntReceivedFrameId

DropColumns(row, cols) == [f \in (DOMAIN row) \ cols |-> row[f]]
HelperColumns == {"puntFrameId", "puntReceivedFrameId"}

\* lines 16-55 for a valid end event: [raised, df]
ModelingFrames(df, plays, pff, play_end_event_name) ==
    LET m1 == MergeKeys(df,
                  SelectSeq(plays, LAMBDA p : PlayFilter(p, play_end_event_name)))
        m2 == MergeKeys(m1, SelectSeq(plays, SingleReturner))
        m3 == MergeKeys(m2, SelectSeq(pff, LAMBDA p : p.kickContactType = "CC"))
        ev == get_frame_of_event(df, {"punt", play_end_event_name})
        cols == PivotColumns(ev)
        \* .dropna(): a pivot row survives when it has both events
        kept(row) == /\ PivotHasRow(ev, row)
                     /\ \A c \in cols : PivotCell(ev, row, c) # NaN
        m4 == [i \in DOMAIN m3 |->
                 m3[i] @@ [puntFrameId |->
                              IF kept(m3[i]) THEN PivotCell(ev, m3[i], "punt") ELSE NaN,
                           puntReceivedFrameId |->
                              IF kept(m3[i]) THEN PivotCell(ev, m3[i], play_end_event_name)
                              ELSE NaN]]
        q == SelectSeq(m4, LAMBDA r : InWindow(r.frameId, r.puntFrameId, r.puntReceivedFrameId))
    IN IF {"punt", play_end_event_name} \subseteq cols
       THEN [raised |-> "none", df |-> [i \in DOMAIN q |-> DropColumns(q[i], HelperColumns)]]
       \* the renamed column does not exist: query() cannot resolve the name
       ELSE [raised |-> "UndefinedVariableError", df |-> <<>>]

\* lines 78-100: [raised, df]; timeToCatch in hundredths of a second
TimeToCatch(df, catch_type) ==
    LET ev == get_frame_of_event(df, {catch_type})
        ttc(r) == Minus(IF PivotHasRow(ev, r) THEN PivotCell(ev, r, catch_type) ELSE NaN,
                        r.frameId)
    IN IF catch_type \notin PivotColumns(ev)
       \* no frame carries the event: the pivot has no such column to rename
       THEN [raised |-> "KeyError", df |-> <<>>]
       ELSE [raised |-> "none",
             df |-> [i \in DOMAIN df |->
                       df[i] @@ [timeToCatch |->
                           IF ttc(df[i]) = NaN THEN NaN ELSE ttc(df[i]) * 10]]]

\* nflutil.remove_abnormal_plays(track_df, plays): the rows of the other plays
remove_abnormal_plays(df, plays) ==
    SelectSeq(df, LAMBDA r : <<r.gameId, r.playId>> \notin plays)

SetMax(S) == CHOOSE m \in S : \A x \in S : x <= m

\* line 62: groupby(['gameId','playId'])['timeToCatch'].max() skips missing values
PlayMax(df, key) ==
    LET vals == {df[i].timeToCatch : i \in {j \in DOMAIN df :
                    <<df[j].gameId, df[j].playId>> = key}} \ {NaN}
    IN IF vals = {} THEN NaN ELSE SetMax(vals)

\* line 65: .query('timeToCatch <= thresh'); a missing value compares false
LowHangtime(hangtime, hangtime_thresh) == hangtime # NaN /\ hangtime <= hangtime_thresh

\* lines 57-75: [raised, df]
RemoveLowHangtime(df, hangtime_thresh) ==
    LET t == TimeToCatch(df, "punt_received")
        keys == {<<r.gameId, r.playId>> : r \in Range(t.df)}
        plays_to_remove == {k \in keys : LowHangtime(PlayMax(t.df, k), hangtime_thresh)}
    IN IF t.raised # "none" THEN [raised |-> t.raised, df |-> <<>>]
       ELSE IF plays_to_remove # {}
       THEN [raised |-> "none", df |-> remove_abnormal_plays(df, plays_to_remove)]
       ELSE [raised |-> "none", df |-> df]

EndEventNames == {"punt_received", "fair_catch", "punt_land"}
ThreshValues == {0, 10, 15, 20}

\* the input dataframes a call has read when the validation of its argument is over
ReadsAtValidation(valid) == IF valid THEN {"play_df"} ELSE {}

\* lines 6-55
prep_get_modeling_frames(play_end_event_name) ==
    /\ pc = "start"
    /\ LET valid == play_end_event_name \in ValidEndEvents
           out == ModelingFrames(track_df, play_df, pff_df, play_end_event_name)
       IN IF ~valid
          THEN /\ raised' = "ValueError"
               /\ reads' = ReadsAtValidation(valid)
               /\ model_df' = <<>>
          ELSE /\ raised' = out.raised
               /\ reads' = ReadsAtValidation(valid) \cup {"track_df", "play_df", "pff_df"}
               /\ model_df' = out.df
    /\ pc' = "prep_get_modeling_frames"
    /\ arg' = [arg EXCEPT !.play_end_event_name = play_end_event_name]
    /\ UNCHANGED <<inputs, ttc_df, clean_df, return_df, ranked_df, tvars, avars>>

\* lines 78-100, on the frames prep_get_modeling_frames returned
feat_timeToCatch(catch_type) ==
    /\ pc = "prep_get_modeling_frames" /\ raised = "none"
    /\ LET valid == catch_type \in ValidEndEvents
           out == TimeToCatch(model_df, catch_type)
       IN IF ~valid
          THEN /\ raised' = "ValueError"
               /\ reads' = {}
               /\ ttc_df' = <<>>
          ELSE /\ raised' = out.raised
               /\ reads' = {"track_df"}
               /\ ttc_df' = out.df
    /\ pc' = "feat_timeToCatch"
    /\ arg' = [arg EXCEPT !.catch_type = catch_type]
    /\ UNCHANGED <<inputs, model_df, clean_df, return_df, ranked_df, tvars, avars>>

\* lines 57-75, on the frames prep_get_modeling_frames returned
prep_remove_low_hangtime_punts(hangtime_thresh) ==
    /\ pc = "prep_get_modeling_frames" /\ raised = "none"
    /\ LET out == RemoveLowHangtime(model_df, hangtime_thresh)
       IN /\ raised' = out.raised
          /\ clean_df' = out.df
    /\ reads' = {"track_df"}
    /\ pc' = "prep_remove_low_hangtime_punts"
    /\ arg' = [arg EXCEPT !.hangtime_thresh = hangtime_thresh]
    /\ UNCHANGED <<inputs, model_df, ttc_df, return_df, ranked_df, tvars, avars>>

\* ----- feat_byDefender ---------------------------------------------------
\* integer square root
RECURSIVE ISqrt(_)
ISqrt(n) ==
    IF n < 2 THEN n
    ELSE LET r == 2 * ISqrt(n \div 4)
         IN IF (r + 1) * (r + 1) <= n THEN r + 1 ELSE r

Abs(v) == IF v < 0 THEN 0 - v ELSE v
Max(a, b) == IF a >= b THEN a ELSE b

\* line 132: np.sqrt((x - x_returner)**2 + (y - y_returner)**2), in hundredths of
\* a yard from positions in hundredths of a yard
Dist(r) ==
    ISqrt((r.x - r.x_returner) * (r.x - r.x_returner)
            + (r.y - r.y_returner) * (r.y - r.y_returner))

\* line 112: .astype({"returnerId": float}) on a cell that holds one id
IdNumber(tok) == CASE tok = "41" -> 41 [] tok = "51" -> 51 [] tok = "52" -> 52
ToFloat(v) == IF v = MissingStr THEN NaN ELSE IdNumber(v[1])

SameFrame(a, b) == SameKey(a, b) /\ a.frameId = b.frameId

\* line 127: .query('teamReturner != team and team != "football"')
Opposing(r) == r.teamReturner # r.team /\ r.team # "football"

\* line 134: .sort_values(['gameId','playId','frameId','dist']) keeps the order of
\* rows with equal keys (a sort on several columns is a stable lexsort)
SortKeyLEByFrameOnly(a, b) ==
    \/ a.gameId < b.gameId
    \/ a.gameId = b.gameId /\ a.playId < b.playId
    \/ a.gameId = b.gameId /\ a.playId = b.playId /\ a.frameId <= b.frameId
SortKeyLE(a, b) ==
    \/ a.gameId < b.gameId
    \/ a.gameId = b.gameId /\ a.playId < b.playId
    \/ a.gameId = b.gameId /\ a.playId = b.playId /\ a.frameId < b.frameId
    \/ a.gameId = b.gameId /\ a.playId = b.playId /\ a.frameId = b.frameId
         /\ a.dist <= b.dist

RECURSIVE InsertSorted(_, _)
InsertSorted(sorted, r) ==
    IF sorted = <<>> THEN <<r>>
    ELSE IF SortKeyLE(Head(sorted), r)
         THEN <<Head(sorted)>> \o InsertSorted(Tail(sorted), r)
         ELSE <<r>> \o sorted

RECURSIVE SortValues(_)
SortValues(df) ==
    IF df = <<>> THEN <<>>
    ELSE InsertSorted(SortValues(SubSeq(df, 1, Len(df) - 1)), df[Len(df)])

\* line 136: groupby(['gameId','playId','frameId']).cumcount() + 1
CumCount(df, i) == Cardinality({j \in 1..(i - 1) : SameFrame(df[j], df[i])})

\* lines 137-139, in hundredths; a missing operand gives a missing value
TimeToClose(r) == (r.dist * 100) \div Max(r.s, 1)
WillReachFactor(r) ==
    IF r.timeToCatch = NaN THEN NaN
    ELSE ((TimeToClose(r) - r.timeToCatch) * 100) \div Max(10, r.timeToCatch)

\* lines 140-144: the 0/1 flags; a comparison with a missing value is false
WillReach(r) ==
    IF r.timeToCatch # NaN /\ r.dist * 100 <= r.timeToCatch * Max(r.s, 1) THEN 1 ELSE 0
ReachWithin(r, yards) ==
    IF r.timeToCatch # NaN /\ r.dist * 100 - r.s * r.timeToCatch <= yards * 10000
    THEN 1 ELSE 0

RECURSIVE SumOver(_, _)
SumOver(S, f) ==
    IF S = {} THEN 0
    ELSE LET x == CHOOSE y \in S : TRUE IN f[x] + SumOver(S \ {x}, f)

\* line 155: .query('distOrder <= n_defenders')
Closest(r, n_defenders) == r.distOrder <= n_defenders

\* lines 111-117: the returner's row of each frame; missing keys match each other
ReturnerFrames(t, plays) ==
    Concat([i \in DOMAIN t |->
        Concat([j \in DOMAIN plays |->
            IF SameKey(t[i], plays[j]) /\ t[i].nflId = ToFloat(plays[j].returnerId)
            THEN <<[gameId |-> t[i].gameId, playId |-> t[i].playId,
                    frameId |-> t[i].frameId, timeToCatch |-> t[i].timeToCatch,
                    teamReturner |-> t[i].team,
                    x_returner |-> t[i].x, y_returner |-> t[i].y]>>
            ELSE <<>>])])

\* lines 119-121: how='left', on=['gameId','playId','frameId']: every tracked
\* entity of the returner's frame (the returner's own row is one of them)
AttachTracks(m, df) ==
    Concat([i \in DOMAIN m |->
        Concat([j \in DOMAIN df |->
            IF SameFrame(m[i], df[j])
            THEN <<m[i] @@ [nflId |-> df[j].nflId, team |-> df[j].team,
                            x |-> df[j].x, y |-> df[j].y, s |-> df[j].s]>>
            ELSE <<>>])])

\* lines 123-125
AttachTeams(m, games) ==
    Concat([i \in DOMAIN m |->
        Concat([j \in DOMAIN games |->
            IF m[i].gameId = games[j].gameId
            THEN <<m[i] @@ [homeTeamAbbr |-> games[j].homeTeamAbbr,
                            visitorTeamAbbr |-> games[j].visitorTeamAbbr]>>
            ELSE <<>>])])

\* lines 129-132
WithDist(m) ==
    [i \in DOMAIN m |->
        [gameId |-> m[i].gameId, playId |-> m[i].playId,
         frameId |-> m[i].frameId, timeToCatch |-> m[i].timeToCatch,
         x_returner |-> m[i].x_returner, y_returner |-> m[i].y_returner,
         nflId |-> m[i].nflId, x |-> m[i].x, y |-> m[i].y, s |-> m[i].s,
         puntTeamAbbr |-> IF m[i].team = "home" THEN m[i].homeTeamAbbr
                          ELSE m[i].visitorTeamAbbr,
         dist |-> Dist(m[i])]]

\* line 136
WithDistOrder(m) == [i \in DOMAIN m |-> m[i] @@ [distOrder |-> CumCount(m, i) + 1]]

FrameSum(m, r, f) == SumOver({i \in DOMAIN m : SameFrame(m[i], r)}, f)

\* lines 140-153: the per-frame counts of the flags, on every row of the frame
WithCounts(m) ==
    LET will == [j \in DOMAIN m |-> WillReach(m[j])]
        in5 == [j \in DOMAIN m |-> ReachWithin(m[j], 5)]
        in10 == [j \in DOMAIN m |-> ReachWithin(m[j], 10)]
        in20 == [j \in DOMAIN m |-> ReachWithin(m[j], 20)]
        in30 == [j \in DOMAIN m |-> ReachWithin(m[j], 30)]
    IN [i \in DOMAIN m |->
          m[i] @@ [willReach |-> FrameSum(m, m[i], will),
                   reachWithin5 |-> FrameSum(m, m[i], in5),
                   reachWithin10 |-> FrameSum(m, m[i], in10),
                   reachWithin20 |-> FrameSum(m, m[i], in20),
                   reachWithin30 |-> FrameSum(m, m[i], in30)]]

\* lines 105-153 once timeToCatch is there: the opposing players of every frame
\* with a returner, ranked by distance
RankedDefenders(t, df, plays, games) ==
    WithCounts(WithDistOrder(SortValues(WithDist(
        SelectSeq(AttachTeams(AttachTracks(
            ReturnerFrames(t, SelectSeq(plays, SingleReturner)), df), games),
            Opposing)))))

\* lines 157-160: the index of the pivot
PivotIndex(r) ==
    [gameId |-> r.gameId, playId |-> r.playId, frameId |-> r.frameId,
     timeToCatch |-> r.timeToCatch, willReach |-> r.willReach,
     reachWithin5 |-> r.reachWithin5, reachWithin10 |-> r.reachWithin10,
     reachWithin20 |-> r.reachWithin20, reachWithin30 |-> r.reachWithin30]

UpGutLeverage(r) == Abs(r.y - r.y_returner)
DistOf(r) == r.dist

\* line 159: the value columns of the pivot
ValueOf(col, r) ==
    CASE col = "dist" -> DistOf(r)
      [] col = "timeToClose" -> TimeToClose(r)
      [] col = "upGutLeverage" -> UpGutLeverage(r)
      [] OTHER -> WillReachFactor(r)

\* the value of column (col, c) in the pivot row of index ix
PivotValue(m, ix, c, col) ==
    LET cell == {i \in DOMAIN m : PivotIndex(m[i]) = ix /\ m[i].distOrder = c}
    IN IF cell = {} THEN NaN ELSE ValueOf(col, m[CHOOSE i \in cell : TRUE])

PivotRows(m) ==
    LET columns == {m[i].distOrder : i \in DOMAIN m}
    IN {ix @@ [dist |-> [c \in columns |-> PivotValue(m, ix, c, "dist")],
               timeToClose |-> [c \in columns |-> PivotValue(m, ix, c, "timeToClose")],
               upGutLeverage |-> [c \in columns |-> PivotValue(m, ix, c, "upGutLeverage")],
               willReachFactor |-> [c \in columns |-> PivotValue(m, ix, c, "willReachFactor")]] :
        ix \in {PivotIndex(m[i]) : i \in DOMAIN m}}

\* lines 154-167: the closest n_defenders of each frame, one row per value of the
\* index and one column per distOrder
PivotDefenders(ranked, n_defenders) ==
    PivotRows(SelectSeq(ranked, LAMBDA r : Closest(r, n_defenders)))

MaxNDefenders == 3

\* lines 103-167
feat_byDefender(n_defenders, catch_type) ==
    /\ pc = "start"
    /\ LET t == TimeToCatch(track_df, catch_type)
       IN IF catch_type \notin ValidEndEvents
          THEN /\ raised' = "ValueError"
               /\ ranked_df' = <<>>
               /\ return_df' = {}
          ELSE IF t.raised # "none"
          THEN /\ raised' = t.raised
               /\ ranked_df' = <<>>
               /\ return_df' = {}
          ELSE LET ranked == RankedDefenders(t.df, track_df, play_df, game_df)
               IN /\ raised' = "none"
                  /\ ranked_df' = ranked
                  /\ return_df' = PivotDefenders(ranked, n_defenders)
    /\ reads' = {"track_df", "play_df", "game_df"}
    /\ pc' = "feat_byDefender"
    /\ arg' = [arg EXCEPT !.n_defenders = n_defenders, !.catch_type = catch_type]
    /\ UNCHANGED <<inputs, model_df, ttc_df, clean_df, tvars, avars>>

\* ----- the inputs ------------------------------------------------------
PlayA == [gameId |-> 1, playId |-> 1]
PlayB == [gameId |-> 2, playId |-> 1]

EventNames == {"punt", "punt_received", "fair_catch"}
\* the event of each frame of a play; a named event marks one frame at most
EventProfiles ==
    {e \in [1..MaxFrame -> EventNames \cup {"None"}] :
        \A i, j \in 1..MaxFrame : (i # j /\ e[i] = e[j]) => e[i] = "None"}

\* per frame, a player and the football
PrepEntities == {41, NaN}
EntitySeq == <<41, NaN>>

TrackOfPlay(key, events) ==
    Concat([f \in 1..MaxFrame |->
        [k \in 1..Len(EntitySeq) |->
            [gameId |-> key.gameId, playId |-> key.playId, frameId |-> f,
             nflId |-> EntitySeq[k], event |-> events[f]]]])

PlayAttrs ==
    [specialTeamsPlayType : {"Punt", "Kickoff"},
     specialTeamsResult : {"Return", "Fair Catch", "Touchback"},
     kickReturnYardage : {NaN, 5},
     returnerId : {MissingStr, <<"41">>, <<"41", ";", "52">>}]

PlayRow(key, attrs) == [gameId |-> key.gameId, playId |-> key.playId] @@ attrs
PffRow(key, contact) == [gameId |-> key.gameId, playId |-> key.playId, kickContactType |-> contact]

\* play B is one of a few fixed plays that share play A's playId
PlayBChoices ==
    {[attrs |-> [specialTeamsPlayType |-> "Punt", specialTeamsResult |-> "Return",
                 kickReturnYardage |-> 5, returnerId |-> <<"52">>],
      contact |-> "CC", events |-> [f \in 1..MaxFrame |->
            IF f = 1 THEN "punt" ELSE IF f = MaxFrame THEN "punt_received" ELSE "None"]],
     [attrs |-> [specialTeamsPlayType |-> "Punt", specialTeamsResult |-> "Fair Catch",
                 kickReturnYardage |-> NaN, returnerId |-> <<"52">>],
      contact |-> "CC", events |-> [f \in 1..MaxFrame |->
            IF f = 1 THEN "punt" ELSE IF f = 2 THEN "fair_catch" ELSE "None"]],
     [attrs |-> [specialTeamsPlayType |-> "Kickoff", specialTeamsResult |-> "Return",
                 kickReturnYardage |-> 5, returnerId |-> <<"52">>],
      contact |-> "BF", events |-> [f \in 1..MaxFrame |-> "None"]]}

PrepInit ==
    /\ \E a \in PlayAttrs, ca \in {"CC", "BF", "absent"}, ea \in EventProfiles,
          b \in PlayBChoices :
        /\ track_df = TrackOfPlay(PlayA, ea) \o TrackOfPlay(PlayB, b.events)
        /\ play_df = <<PlayRow(PlayA, a), PlayRow(PlayB, b.attrs)>>
        /\ pff_df = (IF ca = "absent" THEN <<>> ELSE <<PffRow(PlayA, ca)>>)
                        \o <<PffRow(PlayB, b.contact)>>
        /\ game_df = <<>>
    /\ pc = "start"
    /\ arg = NoArgs
    /\ model_df = <<>>
    /\ ttc_df = <<>>
    /\ clean_df = <<>>
    /\ return_df = {}
    /\ ranked_df = <<>>
    /\ raised = "none"
    /\ reads = {}
    /\ heap = <<>> /\ input = <<>> /\ called = <<>> /\ returned = <<>>
    /\ frame_data = <<>> /\ num_players = 0 /\ anim_frame = 0
    /\ scat_fb = <<>> /\ scat_home = <<>> /\ scat_away = <<>>
    /\ scat_position_list = <<>> /\ scat_number_list = <<>>
    /\ scat_name_list = <<>> /\ plot_track_list = <<>>

PrepNext ==
    \/ \E n \in EndEventNames : prep_get_modeling_frames(n)
    \/ \E c \in EndEventNames : feat_timeToCatch(c)
    \/ \E t \in ThreshValues : prep_remove_low_hangtime_punts(t)


\* ----- the inputs of feat_byDefender -------------------------------------
MaxDefFrames == 2

\* positions in hundredths of a yard: three at 5 yards from (10, 10), one nearer
DefenderSpots == {<<1300, 1400>>, <<1400, 1300>>, <<1000, 1500>>, <<1100, 1100>>}
Absent == <<>>

Entity(key, f, id, team, pos, s, catchFrame) ==
    IF pos = Absent THEN <<>>
    ELSE <<[gameId |-> key.gameId, playId |-> key.playId, frameId |-> f, nflId |-> id,
            team |-> team, x |-> pos[1], y |-> pos[2], s |-> s,
            event |-> IF f = catchFrame THEN "punt_received" ELSE "None"]>>

\* a frame: football, home players 41 and 42, away players 51, 52 and 53
FrameRows(key, f, c, catchFrame) ==
    Entity(key, f, NaN, "football", <<1000, 1000>>, 900, catchFrame)
    \o Entity(key, f, 51, "away", c.p51, 400, catchFrame)
    \o Entity(key, f, 41, "home", c.p41, 0, catchFrame)
    \o Entity(key, f, 52, "away", c.p52, 700, catchFrame)
    \o Entity(key, f, 42, "home", c.p42, 300, catchFrame)
    \o Entity(key, f, 53, "away", c.p53, 100, catchFrame)

FirstFrameChoices ==
    [p41 : {Absent, <<1000, 1000>>}, p42 : {Absent, <<1000, 1200>>},
     p51 : DefenderSpots \cup {Absent}, p52 : DefenderSpots \cup {Absent},
     p53 : {Absent, <<1300, 1400>>}]
LaterFrameChoices ==
    [p41 : {<<1000, 1000>>}, p42 : {<<1000, 1200>>},
     p51 : {Absent, <<1400, 1300>>}, p52 : {Absent, <<1100, 1100>>}, p53 : {Absent}]

ReturnerIds == {MissingStr, <<"41">>, <<"51">>, <<"41", ";", "52">>}

DefenderInit ==
    /\ \E first \in FirstFrameChoices, later \in [2..MaxDefFrames -> LaterFrameChoices],
          rid \in ReturnerIds, catchFrame \in {0, MaxDefFrames} :
        /\ track_df =
              FrameRows(PlayA, 1, first, catchFrame)
              \o Concat([i \in 1..(MaxDefFrames - 1) |->
                            FrameRows(PlayA, i + 1, later[i + 1], catchFrame)])
              \* a play of another game with the same playId and frameId
              \o FrameRows(PlayB, 1, [p41 |-> <<1000, 1000>>, p42 |-> Absent,
                                      p51 |-> <<1100, 1100>>, p52 |-> Absent,
                                      p53 |-> Absent], 1)
        /\ play_df = <<[gameId |-> 1, playId |-> 1, returnerId |-> rid],
                       [gameId |-> 2, playId |-> 1, returnerId |-> <<"41">>]>>
    /\ game_df = <<[gameId |-> 1, homeTeamAbbr |-> "KC", visitorTeamAbbr |-> "ATL"],
                   [gameId |-> 2, homeTeamAbbr |-> "GB", visitorTeamAbbr |-> "KC"]>>
    /\ pff_df = <<>>
    /\ pc = "start"
    /\ arg = NoArgs
    /\ model_df = <<>>
    /\ ttc_df = <<>>
    /\ clean_df = <<>>
    /\ return_df = {}
    /\ ranked_df = <<>>
    /\ raised = "none"
    /\ reads = {}
    /\ heap = <<>> /\ input = <<>> /\ called = <<>> /\ returned = <<>>
    /\ frame_data = <<>> /\ num_players = 0 /\ anim_frame = 0
    /\ scat_fb = <<>> /\ scat_home = <<>> /\ scat_away = <<>>
    /\ scat_position_list = <<>> /\ scat_number_list = <<>>
    /\ scat_name_list = <<>> /\ plot_track_list = <<>>

DefenderNext ==
    \E n \in 1..MaxNDefenders, c \in EndEventNames : feat_byDefender(n, c)

\* ======================================================================
\* nflplot.PlayAnimation
\* ======================================================================
MaxAnimFrame == 2
MaxBasePlots == 2

\* ax.text(0, 0, '') and ax.plot([], []): the placeholders base_plot creates
BlankText == [x |-> 0, y |-> 0, text |-> "", color |-> "default"]
BlankLine == [xs |-> <<>>, ys |-> <<>>, color |-> "default"]

\* self._team_colors[team]['main' | 'secondary']
MainColor(team) == IF team = "home" THEN "home main" ELSE "away main"
SecondaryColor(team) == IF team = "home" THEN "home secondary" ELSE "away secondary"

\* int(player.jerseyNumber), then the text set_text shows; the number is a float
\* (hundredths here)
IntText(v) == CASE v \div 100 = 12 -> "12" [] v \div 100 = 88 -> "88" [] OTHER -> "?"

\* player.displayName.split()[-1]; a name is its sequence of words
LastWord(name) == name[Len(name)]

\* the rows of a frame and of the frames up to it, in the order of _frame_data
PosRows(data, anim) == SelectSeq(data, LAMBDA r : r.frameId = anim)
HistRows(data, anim) == SelectSeq(data, LAMBDA r : r.frameId <= anim)
PlayerRows(data, anim) == SelectSeq(PosRows(data, anim), LAMBDA r : r.jerseyNumber # NaN)

Points(rows) == [i \in DOMAIN rows |-> <<rows[i].x, rows[i].y>>]
TeamRows(data, anim, label) == SelectSeq(PosRows(data, anim), LAMBDA r : r.team = label)

\* lines 148-156: the scatter of a label is set when the frame has rows of it
Offsets(old, data, anim, label) ==
    IF TeamRows(data, anim, label) = <<>> THEN old
    ELSE Points(TeamRows(data, anim, label))

\* lines 162-178: the placeholders of index below the number of player rows
PositionTexts(old, players) ==
    [i \in DOMAIN old |->
        IF i > Len(players) THEN old[i]
        ELSE [x |-> players[i].x, y |-> players[i].y, text |-> players[i].position,
              color |-> SecondaryColor(players[i].team)]]

NumberTexts(old, players) ==
    [i \in DOMAIN old |->
        IF i > Len(players) THEN old[i]
        ELSE [x |-> players[i].x, y |-> players[i].y + 190,
              text |-> IntText(players[i].jerseyNumber),
              color |-> MainColor(players[i].team)]]

NameTexts(old, players) ==
    [i \in DOMAIN old |->
        IF i > Len(players) THEN old[i]
        ELSE [x |-> players[i].x, y |-> players[i].y - 190,
              text |-> LastWord(players[i].displayName),
              color |-> MainColor(players[i].team)]]

\* lines 176-178: the track of the player of row i, by nflId
TrackOfSlot(hist, players, i) ==
    SelectSeq(hist, LAMBDA r : r.nflId = players[1].nflId)
TrackOfIndex(hist, players, i) == SelectSeq(hist, LAMBDA r : r.nflId = players[i].nflId)

TrackLines(old, players, hist) ==
    [i \in DOMAIN old |->
        IF i > Len(players) THEN old[i]
        ELSE LET track == TrackOfIndex(hist, players, i)
             IN [xs |-> [k \in DOMAIN track |-> track[k].x],
                 ys |-> [k \in DOMAIN track |-> track[k].y],
                 color |-> MainColor(players[i].team)]]

\* what is on screen: the artists update() returns
Rendered ==
    [fb |-> scat_fb, home |-> scat_home, away |-> scat_away,
     position |-> scat_position_list, number |-> scat_number_list,
     name |-> scat_name_list, track |-> plot_track_list]

\* lines 141-184 on the artists r
UpdateRendered(r, data, anim) ==
    [fb |-> Offsets(r.fb, data, anim, "football"),
     home |-> Offsets(r.home, data, anim, "home"),
     away |-> Offsets(r.away, data, anim, "away"),
     position |-> PositionTexts(r.position, PlayerRows(data, anim)),
     number |-> NumberTexts(r.number, PlayerRows(data, anim)),
     name |-> NameTexts(r.name, PlayerRows(data, anim)),
     track |-> TrackLines(r.track, PlayerRows(data, anim), HistRows(data, anim))]

\* line 51: self._frame_ids
FrameIds == {frame_data[i].frameId : i \in DOMAIN frame_data}

\* lines 87-139: the player placeholders are appended at each call
base_plot ==
    /\ frame_data # <<>>
    /\ Len(plot_track_list) < MaxBasePlots * num_players
    /\ scat_position_list' = scat_position_list \o [i \in 1..num_players |-> BlankText]
    /\ scat_number_list' = scat_number_list \o [i \in 1..num_players |-> BlankText]
    /\ scat_name_list' = scat_name_list \o [i \in 1..num_players |-> BlankText]
    /\ plot_track_list' = plot_track_list \o [i \in 1..num_players |-> BlankLine]
    /\ UNCHANGED <<frame_data, num_players, scat_fb, scat_home, scat_away, anim_frame>>
    /\ UNCHANGED <<tvars, pvars>>

\* lines 141-184; FuncAnimation draws init_func (base_plot) before any frame
update(anim) ==
    /\ Len(plot_track_list) >= num_players /\ plot_track_list # <<>>
    /\ anim \in FrameIds
    /\ LET r == UpdateRendered(Rendered, frame_data, anim)
       IN /\ scat_fb' = r.fb
          /\ scat_home' = r.home
          /\ scat_away' = r.away
          /\ scat_position_list' = r.position
          /\ scat_number_list' = r.number
          /\ scat_name_list' = r.name
          /\ plot_track_list' = r.track
    /\ anim_frame' = anim
    /\ UNCHANGED <<frame_data, num_players>>
    /\ UNCHANGED <<tvars, pvars>>

\* ----- the play that is animated -----------------------------------------
AnimRow(f, id, team, pos, jersey, position, name) ==
    [frameId |-> f, nflId |-> id, team |-> team, x |-> pos[1], y |-> pos[2],
     jerseyNumber |-> jersey, position |-> position, displayName |-> name]

\* the rows a frame can hold: the football, and each player where it is tracked
FootballRow(f) == AnimRow(f, NaN, "football", <<3000 + 100 * f, 2600>>, NaN, "NaN", <<"football">>)
Row41(f, spot) == AnimRow(f, 41, "home", <<2000 + 100 * f, spot>>, 1200, "QB", <<"Tom", "Brady">>)
Row52(f) == AnimRow(f, 52, "away", <<4000 - 100 * f, 3000>>, 8800, "WR",
                    <<"Billy", "Ray", "Price">>)

FrameSets(f) ==
    {{FootballRow(f)} \cup a \cup b :
        a \in {{}, {Row41(f, 1000)}, {Row41(f, 1500)}}, b \in {{}, {Row52(f)}}}

\* every order of the rows of a set
Orders(S) == {q \in [1..Cardinality(S) -> S] : Range(q) = S}

\* line 29: sorted by frameId; rows of one frame in any order
FrameSeqs(f) == UNION {Orders(S) : S \in FrameSets(f)}

\* line 47: len(track_df.nflId.unique()); the football's missing id counts as one
NumPlayers(data) == Cardinality({data[i].nflId : i \in DOMAIN data})

AnimInit ==
    /\ \E frames \in [1..MaxAnimFrame -> UNION {FrameSeqs(f) : f \in 1..MaxAnimFrame}] :
        /\ \A f \in 1..MaxAnimFrame : frames[f] \in FrameSeqs(f)
        /\ frame_data = Concat(frames)
        /\ num_players = NumPlayers(Concat(frames))
    /\ anim_frame = 0
    /\ scat_fb = <<>> /\ scat_home = <<>> /\ scat_away = <<>>
    /\ scat_position_list = <<>> /\ scat_number_list = <<>>
    /\ scat_name_list = <<>> /\ plot_track_list = <<>>
    /\ heap = <<>> /\ input = <<>> /\ called = <<>> /\ returned = <<>>
    /\ track_df = <<>> /\ play_df = <<>> /\ pff_df = <<>> /\ game_df = <<>>
    /\ pc = "idle" /\ arg = NoArgs /\ raised = "none" /\ reads = {}
    /\ model_df = <<>> /\ ttc_df = <<>> /\ clean_df = <<>>
    /\ return_df = {} /\ ranked_df = <<>>

AnimNext ==
    \/ base_plot
    \/ \E f \in 1..MaxAnimFrame : update(f)

\* ======================================================================
\* Specifications: one per group of functions
\* ======================================================================
SpecTransform == TransformInit /\ [][TransformNext]_vars

SpecPrep == PrepInit /\ [][PrepNext]_vars

SpecDefender == DefenderInit /\ [][DefenderNext]_vars

SpecAnimation == AnimInit /\ [][AnimNext]_vars

\* ======================================================================
\* Properties
\* ======================================================================

\* ----- transform_tracking_data ----------------------------------------
\* the rows a finished call produced: the returned copy, or the caller's frame
Produced(r) == IF called[r] = "inplace" THEN heap[r] ELSE heap[returned[r].ref]

\* C2: with inplace=False the call returns a new dataframe and leaves every cell
\* of the caller's track_df as it was; with inplace=True it returns None and the
\* caller's track_df holds the rows the inplace=False call returned for the same
\* input.
C2_InplaceContract ==
    \A r \in DOMAIN called :
        /\ called[r] = "copy" =>
              /\ returned[r].type = "DataFrame"
              /\ returned[r].ref \notin CallerRefs
              /\ heap[r] = input
        /\ called[r] = "inplace" =>
              /\ returned[r] = NoneValue
              /\ \A q \in DOMAIN called :
                    called[q] = "copy" => heap[r] = heap[returned[q].ref]

HasLeftAndOther(df) ==
    /\ \E i \in DOMAIN df : df[i].playDirection = "left"
    /\ \E i \in DOMAIN df : df[i].playDirection # "left"

C2_Witness ==
    /\ HasLeftAndOther(input)
    /\ \E r, q \in DOMAIN called :
          called[r] = "inplace" /\ called[q] = "copy" /\ heap[r] # input

\* C3: row by row, a row with playDirection "left" gets x = 120 - x,
\* y = 53.3 - y, o = (o + 180) mod 360 and dir = (dir + 180) mod 360; a row with
\* another playDirection keeps x, y, o and dir; every other column, playDirection
\* included, is unchanged in every row.
ExpectedAngle(v) == IF v = NaN THEN NaN ELSE (v + 18000) % 36000

C3_RowByRow ==
    \A r \in DOMAIN called :
        called[r] # "no" =>
            LET out == Produced(r)
            IN /\ Len(out) = Len(input)
               /\ \A i \in DOMAIN input :
                    /\ out[i].playDirection = input[i].playDirection
                    /\ out[i].frameId = input[i].frameId
                    /\ DOMAIN out[i] = DOMAIN input[i]
                    /\ IF input[i].playDirection = "left"
                       THEN /\ out[i].x = 12000 - input[i].x
                            /\ out[i].y = 5330 - input[i].y
                            /\ out[i].o = ExpectedAngle(input[i].o)
                            /\ out[i].dir = ExpectedAngle(input[i].dir)
                       ELSE /\ out[i].x = input[i].x /\ out[i].y = input[i].y
                            /\ out[i].o = input[i].o /\ out[i].dir = input[i].dir

C3_Witness ==
    /\ HasLeftAndOther(input)
    /\ \E i \in DOMAIN input : input[i].playDirection = "left" /\ input[i].o = 27000
    /\ \E r \in DOMAIN called : called[r] = "copy"

\* ----- prep_get_modeling_frames ----------------------------------------
\* C1: both functions raise ValueError exactly for the names other than
\* "punt_received" and "fair_catch"; when they do, no input dataframe has been
\* read; and no call changes an input dataframe.
C1_ValidationState ==
    /\ pc = "prep_get_modeling_frames" =>
          /\ (raised = "ValueError") <=> (arg.play_end_event_name \notin {"punt_received", "fair_catch"})
          /\ raised = "ValueError" => reads = {}
    /\ pc = "feat_timeToCatch" =>
          /\ (raised = "ValueError") <=> (arg.catch_type \notin {"punt_received", "fair_catch"})
          /\ raised = "ValueError" => reads = {}

C1_Validation == []C1_ValidationState /\ [][inputs' = inputs]_vars

C1_Witness ==
    /\ pc = "feat_timeToCatch" /\ raised = "ValueError"
    /\ arg.play_end_event_name = "fair_catch" /\ model_df # <<>>

PlayRowsOf(row) == {p \in Range(play_df) : SameKey(p, row)}
PffRowsOf(row) == {p \in Range(pff_df) : SameKey(p, row)}

\* a play with one returner: its returnerId is there and is one id
ExactlyOneReturner(play) == play.returnerId # MissingStr /\ Len(play.returnerId) = 1

\* C4: every returned row belongs to a play that in play_df is a Punt whose
\* result is Return with a kickReturnYardage (end event punt_received) or Fair
\* Catch (end event fair_catch), that has exactly one returner, and that in
\* pff_df has kickContactType "CC".
C4_PlayFilter ==
    (pc # "start" /\ pc # "idle") =>
        \A i \in DOMAIN model_df :
            /\ \E p \in PlayRowsOf(model_df[i]) :
                  /\ p.specialTeamsPlayType = "Punt"
                  /\ IF arg.play_end_event_name = "punt_received"
                     THEN p.specialTeamsResult = "Return" /\ p.kickReturnYardage # NaN
                     ELSE p.specialTeamsResult = "Fair Catch"
                  /\ ExactlyOneReturner(p)
            /\ \E p \in PffRowsOf(model_df[i]) : p.kickContactType = "CC"

\* what the code enforces: as C4, with a missing returnerId accepted too
C4_AsImplemented ==
    (pc # "start" /\ pc # "idle") =>
        \A i \in DOMAIN model_df :
            /\ \E p \in PlayRowsOf(model_df[i]) :
                  /\ p.specialTeamsPlayType = "Punt"
                  /\ IF arg.play_end_event_name = "punt_received"
                     THEN p.specialTeamsResult = "Return" /\ p.kickReturnYardage # NaN
                     ELSE p.specialTeamsResult = "Fair Catch"
                  /\ (ExactlyOneReturner(p) \/ p.returnerId = MissingStr)
            /\ \E p \in PffRowsOf(model_df[i]) : p.kickContactType = "CC"

\* the frame of a play that carries an event, as a set (empty: no such frame)
FramesOfEvent(row, event) ==
    {r.frameId : r \in {q \in Range(track_df) : SameKey(q, row) /\ q.event = event}}

PassesPlayFilters(row, name) ==
    /\ \E p \in PlayRowsOf(row) : PlayFilter(p, name) /\ SingleReturner(p)
    /\ \E p \in PffRowsOf(row) : p.kickContactType = "CC"

Occurrences(df, row) == Cardinality({i \in DOMAIN df : df[i] = row})

\* C5: a tracking row of a play that passes the play filters is returned exactly
\* once if the play has a "punt" frame and a frame of the end event and
\* punt frame <= frameId <= end frame, and is not returned otherwise; nothing
\* else is returned, and no returned row has the columns puntFrameId and
\* puntReceivedFrameId.
C5_FrameWindow ==
    (pc # "start" /\ pc # "idle" /\ arg.play_end_event_name \in ValidEndEvents) =>
        LET name == arg.play_end_event_name
            expected(r) ==
                /\ PassesPlayFilters(r, name)
                /\ \E a \in FramesOfEvent(r, "punt"), b \in FramesOfEvent(r, name) :
                      a <= r.frameId /\ r.frameId <= b
        IN /\ \A r \in Range(track_df) :
                Occurrences(model_df, r) = IF expected(r) THEN 1 ELSE 0
           /\ \A i \in DOMAIN model_df :
                /\ model_df[i] \in Range(track_df)
                /\ DOMAIN model_df[i] \cap HelperColumns = {}

C5_Witness ==
    /\ pc = "prep_get_modeling_frames" /\ raised = "none"
    /\ \E i, j \in DOMAIN model_df :
          /\ model_df[i].gameId = 1 /\ model_df[i].frameId = 2 /\ model_df[i].event = "punt"
          /\ model_df[j].gameId = 1 /\ model_df[j].frameId = 3
          /\ model_df[j].event = arg.play_end_event_name
    /\ \E r \in Range(track_df) : r.gameId = 1 /\ r.frameId = 1 /\ r \notin Range(model_df)

\* ----- prep_remove_low_hangtime_punts ----------------------------------
PlayFrames(df, row) == {df[i].frameId : i \in {j \in DOMAIN df : SameKey(df[j], row)}}
SetMin(S) == CHOOSE m \in S : \A x \in S : m <= x

\* time from the first frame of the play to its catch (last) frame, in hundredths
Hangtime(df, row) == (SetMax(PlayFrames(df, row)) - SetMin(PlayFrames(df, row))) * 10

\* C6: on frames that prep_get_modeling_frames returned (either end event; at
\* least one row), the call returns exactly the rows of the plays whose hangtime
\* is strictly greater than hangtime_thresh.
C6_LowHangtimeRemoved ==
    (pc = "prep_remove_low_hangtime_punts" /\ model_df # <<>>) =>
        /\ raised = "none"
        /\ clean_df = SelectSeq(model_df,
                        LAMBDA r : Hangtime(model_df, r) > arg.hangtime_thresh)

\* what holds of the code: C6 for the end event "punt_received"
C6_PuntReceivedOnly ==
    (pc = "prep_remove_low_hangtime_punts" /\ model_df # <<>>
        /\ arg.play_end_event_name = "punt_received") =>
        /\ raised = "none"
        /\ clean_df = SelectSeq(model_df,
                        LAMBDA r : Hangtime(model_df, r) > arg.hangtime_thresh)


\* ----- feat_byDefender --------------------------------------------------
\* the tracking rows of the returner: the entity the play's single returnerId names
ReturnerRows ==
    {e \in Range(track_df) :
        \E p \in Range(play_df) :
            SameKey(p, e) /\ SingleReturner(p) /\ e.nflId = ToFloat(p.returnerId)}

\* the tracked entities of the returner's frame on another team, football excluded
CandidatesOf(ret) ==
    {e \in Range(track_df) :
        SameFrame(e, ret) /\ e.team # ret.team /\ e.team # "football"}

RankedOf(ret) == {i \in DOMAIN ranked_df : SameFrame(ranked_df[i], ret)}

FramePlayers(f) ==
    SelectSeq(frame_data, LAMBDA r : r.frameId = f /\ r.jerseyNumber # NaN)

\* the rows of a player up to a frame
PastRows(id, f) == {r \in Range(frame_data) : r.nflId = id /\ r.frameId <= f}

JerseyShown(id) == IF id = 41 THEN "12" ELSE "88"
LastNameShown(id) == IF id = 41 THEN "Brady" ELSE "Price"
PositionShown(id) == IF id = 41 THEN "QB" ELSE "WR"

BlankRendered ==
    [fb |-> <<>>, home |-> <<>>, away |-> <<>>,
     position |-> [i \in DOMAIN scat_position_list |-> BlankText],
     number |-> [i \in DOMAIN scat_number_list |-> BlankText],
     name |-> [i \in DOMAIN scat_name_list |-> BlankText],
     track |-> [i \in DOMAIN plot_track_list |-> BlankLine]]

\* C9: what is on screen after update(f) depends on f and the tracking data
\* only: it is what update(f) draws right after base_plot, whatever frames were
\* rendered before.
C9_HistoryIndependent ==
    anim_frame # 0 => Rendered = UpdateRendered(BlankRendered, frame_data, anim_frame)

\* C9, its particular case: no label shown belongs to a player that frame f does
\* not track
C9_NoStaleLabel ==
    anim_frame # 0 =>
        \A i \in DOMAIN scat_name_list :
            scat_name_list[i].text # "" =>
                \E j \in DOMAIN FramePlayers(anim_frame) :
                    scat_name_list[i].text = LastNameShown(FramePlayers(anim_frame)[j].nflId)


=============================================================================
